---- MODULE Spec2Model ----
(***************************************************************************)
(* A model of the Dune Analytics MCP server (src/main.py): the lazily      *)
(* initialised DuneClient handle, the six tool adapters that make one      *)
(* remote call each, the query template helper, the two parameter          *)
(* coercion paths and the shaping of execution results.                    *)
(*                                                                         *)
(* Every tool is an `async def` without a suspension point (there is no    *)
(* `await` in src/main.py), so on the server's event loop a tool body runs *)
(* from its first line to its return without interleaving: one action per  *)
(* tool invocation, followed by the delivery of the returned value.        *)
(*                                                                         *)
(* Python values are records tagged with their runtime type in field `t`;  *)
(* a Python str that the code inspects is a tuple of one-character         *)
(* strings; a dict is a function whose DOMAIN is its key set; an object is *)
(* a function whose DOMAIN is its attribute set.                           *)
(***************************************************************************)
EXTENDS Integers, Sequences, FiniteSets, TLC

-----------------------------------------------------------------------------
(* Bounds of the model.                                                    *)

\* longest value string of a create_query parameter
MaxStrLen == 2
\* most entries of a parameter mapping / parameter list
MaxParams == 2
\* most rows of a remote result
MaxRows == 102

(* Program constants.                                                      *)

\* rows[:100]
RowLimit == 100

-----------------------------------------------------------------------------
(* Python values.                                                          *)

PyNone == [t |-> "NoneType"]
PyStr(s) == [t |-> "str", v |-> s]
PyInt(n) == [t |-> "int", v |-> n]
PyBool(b) == [t |-> "bool", v |-> b]
PyList(s) == [t |-> "list", v |-> s]

\* A float is held in fixed point: v is the value times Scale, which is exact
\* for every literal of at most MaxStrLen characters.
RECURSIVE Pow10(_)
Pow10(n) == IF n = 0 THEN 1 ELSE 10 * Pow10(n - 1)
Scale == Pow10(MaxStrLen)
PyFloat(scaled) == [t |-> "float", v |-> scaled]

\* isinstance(value, str)
IsInstanceStr(value) == value.t = "str"

\* isinstance(value, (int, float)): bool is a subclass of int
IsInstanceIntFloat(value) == value.t \in {"int", "bool", "float"}

\* str(n) of an integer
DigitChar(d) == <<"0", "1", "2", "3", "4", "5", "6", "7", "8", "9">>[d + 1]

RECURSIVE NatStr(_)
NatStr(n) ==
    IF n < 10 THEN <<DigitChar(n)>>
    ELSE NatStr(n \div 10) \o <<DigitChar(n % 10)>>

IntStr(n) == IF n < 0 THEN <<"-">> \o NatStr(-n) ELSE NatStr(n)

\* the digits of a fraction given as frac / Pow10(width), without trailing
\* zeros but never empty
RECURSIVE FracStr(_, _)
FracStr(frac, width) ==
    IF width <= 1 THEN <<DigitChar(frac)>>
    ELSE IF frac % 10 = 0 THEN FracStr(frac \div 10, width - 1)
    ELSE FracStr(frac \div 10, width - 1) \o <<DigitChar(frac % 10)>>

\* str(x) of a float
FloatStr(scaled) ==
    LET a == IF scaled < 0 THEN -scaled ELSE scaled
    IN  (IF scaled < 0 THEN <<"-">> ELSE <<>>)
        \o NatStr(a \div Scale) \o <<".">> \o FracStr(a % Scale, MaxStrLen)

\* str(value) of a list of integers
RECURSIVE ListItemsStr(_)
ListItemsStr(items) ==
    IF items = <<>> THEN <<>>
    ELSE IF Len(items) = 1 THEN IntStr(items[1].v)
    ELSE IntStr(items[1].v) \o <<",", " ">> \o ListItemsStr(Tail(items))

\* str(value)
Str(value) ==
    CASE value.t = "str" -> value.v
      [] value.t = "NoneType" -> <<"N", "o", "n", "e">>
      [] value.t = "bool" -> IF value.v THEN <<"T", "r", "u", "e">>
                                          ELSE <<"F", "a", "l", "s", "e">>
      [] value.t = "list" -> <<"[">> \o ListItemsStr(value.v) \o <<"]">>
      [] value.t = "int" -> IntStr(value.v)
      [] OTHER -> FloatStr(value.v)

-----------------------------------------------------------------------------
(* Exceptions.  Each is an instance of a subclass of Exception.            *)

NoExc == [cls |-> "none", msg |-> "none"]
Exc(cls, msg) == [cls |-> cls, msg |-> msg]
ExceptionSubclasses ==
    {"ValueError", "KeyError", "AttributeError", "TypeError", "DuneError"}

\* The result of evaluating an expression: a value, or a raised exception.
Val(v) == [exc |-> NoExc, val |-> v]
Raise(e) == [exc |-> e, val |-> PyNone]

-----------------------------------------------------------------------------
(* float(param_value), on the characters of Chars.                         *)

Digits == {"0", "1"}
Chars == Digits \cup {".", "-", " ", "x"}

DigitVal(c) == IF c = "1" THEN 1 ELSE 0

RECURSIVE Strip(_)
Strip(s) ==
    IF s = <<>> THEN s
    ELSE IF Head(s) = " " THEN Strip(Tail(s))
    ELSE IF s[Len(s)] = " " THEN Strip(SubSeq(s, 1, Len(s) - 1))
    ELSE s

AllDigits(s) == \A i \in 1..Len(s) : s[i] \in Digits

RECURSIVE DigitsVal(_)
DigitsVal(s) ==
    IF s = <<>> THEN 0
    ELSE 10 * DigitsVal(SubSeq(s, 1, Len(s) - 1)) + DigitVal(s[Len(s)])

\* position of the first "." of s, or 0
DotAt(s) ==
    IF \E i \in 1..Len(s) : s[i] = "."
    THEN CHOOSE i \in 1..Len(s) : s[i] = "." /\ \A j \in 1..(i - 1) : s[j] # "."
    ELSE 0

\* an unsigned decimal literal: digits, digits., .digits or digits.digits
IsDecimal(s) ==
    LET d == DotAt(s)
        ip == IF d = 0 THEN s ELSE SubSeq(s, 1, d - 1)
        fp == IF d = 0 THEN <<>> ELSE SubSeq(s, d + 1, Len(s))
    IN  AllDigits(ip) /\ AllDigits(fp) /\ Len(ip) + Len(fp) > 0

DecimalVal(s) ==
    LET d == DotAt(s)
        ip == IF d = 0 THEN s ELSE SubSeq(s, 1, d - 1)
        fp == IF d = 0 THEN <<>> ELSE SubSeq(s, d + 1, Len(s))
    IN  DigitsVal(ip) * Scale + DigitsVal(fp) * Pow10(MaxStrLen - Len(fp))

\* float(s): surrounding whitespace is dropped, a sign is allowed, the rest
\* must be a decimal literal; anything else raises ValueError.
Float(s) ==
    LET b == Strip(s)
        neg == b # <<>> /\ Head(b) = "-"
        u == IF neg THEN Tail(b) ELSE b
    IN  IF IsDecimal(u)
        THEN Val(PyFloat((IF neg THEN -1 ELSE 1) * DecimalVal(u)))
        ELSE Raise(Exc("ValueError", "could not convert string to float"))

-----------------------------------------------------------------------------
(* Parameter coercion.                                                     *)

\* the QueryParameter constructors of the client library, as the code reads
\* them back (p.key, p.type, p.value)
text_type(name, value) == [key |-> name, type |-> "text", value |-> value]
number_type(name, value) == [key |-> name, type |-> "number", value |-> value]
date_type(name, value) == [key |-> name, type |-> "date", value |-> value]
enum_type(name, value) == [key |-> name, type |-> "enum", value |-> value]

\* bool(x) of a value
Truthy(x) ==
    CASE x.t = "NoneType" -> FALSE
      [] x.t \in {"str", "list", "dict"} -> x.v # <<>>
      [] x.t \in {"int", "float"} -> x.v # 0
      [] x.t = "bool" -> x.v
      [] OTHER -> TRUE

\* execute_query, one entry of parameters.items(): entry = <<key, value>>
SimpleCoerceOne(entry) ==
    LET key == entry[1]
        value == entry[2]
    IN  IF IsInstanceStr(value) THEN text_type(key, value)
        ELSE IF IsInstanceIntFloat(value) THEN number_type(key, value)
        ELSE text_type(key, PyStr(Str(value)))

\* execute_query: query_params; a mapping is the tuple of its items in
\* iteration order
SimpleCoerce(parameters) ==
    IF Truthy(parameters)
    THEN [i \in 1..Len(parameters.v) |-> SimpleCoerceOne(parameters.v[i])]
    ELSE <<>>

\* `query_params if query_params else None`
ParamsOrNone(query_params) ==
    IF query_params # <<>> THEN PyList(query_params) ELSE PyNone

\* the coercion of one element with a float() whose failure is swallowed and
\* replaced by 0
RichCoerceOneDefaulting(param) ==
    LET param_type == IF "type" \in DOMAIN param THEN param["type"] ELSE "text"
        param_value == IF "value" \in DOMAIN param THEN param["value"] ELSE <<>>
    IN  IF "name" \notin DOMAIN param
        THEN Raise(Exc("KeyError", "'name'"))
        ELSE IF param_type = "number"
        THEN IF param_value # <<>> /\ Float(param_value).exc = NoExc
             THEN Val(number_type(param["name"], Float(param_value).val))
             ELSE Val(number_type(param["name"], PyInt(0)))
        ELSE IF param_type = "date"
        THEN Val(date_type(param["name"], PyStr(param_value)))
        ELSE IF param_type = "enum"
        THEN Val(enum_type(param["name"], PyStr(param_value)))
        ELSE Val(text_type(param["name"], PyStr(param_value)))

\* create_query, one element of parameters: a dict with keys among
\* type, name, value
RichCoerceOne(param) ==
    LET param_type == IF "type" \in DOMAIN param THEN param["type"] ELSE "text"
        param_value == IF "value" \in DOMAIN param THEN param["value"] ELSE <<>>
    IN  IF "name" \notin DOMAIN param
        THEN Raise(Exc("KeyError", "'name'"))
        ELSE LET param_name == param["name"] IN
             IF param_type = "number"
             THEN IF param_value # <<>>
                  THEN LET f == Float(param_value) IN
                       IF f.exc # NoExc THEN f
                       ELSE Val(number_type(param_name, f.val))
                  ELSE Val(number_type(param_name, PyInt(0)))
             ELSE IF param_type = "date"
             THEN Val(date_type(param_name, PyStr(param_value)))
             ELSE IF param_type = "enum"
             THEN Val(enum_type(param_name, PyStr(param_value)))
             ELSE Val(text_type(param_name, PyStr(param_value)))

\* create_query: the loop over parameters stops at the first exception
RECURSIVE RichCoerceFrom(_, _)
RichCoerceFrom(params, acc) ==
    IF params = <<>> THEN Val(acc)
    ELSE LET c == RichCoerceOne(Head(params)) IN
         IF c.exc # NoExc THEN c
         ELSE RichCoerceFrom(Tail(params), Append(acc, c.val))

RichCoerce(parameters) ==
    IF Truthy(parameters) THEN RichCoerceFrom(parameters.v, <<>>) ELSE Val(<<>>)

-----------------------------------------------------------------------------
(* The remote client handle.                                               *)

\* dune_client: Optional[DuneClient] = None; a handle is a positive number,
\* the count of DuneClient.from_env() calls that produced it
None == 0

\* os.getenv(name): the value, or None
os_getenv(environ, name) ==
    IF name \in DOMAIN environ THEN PyStr(environ[name]) ELSE PyNone

\* get_dune_client() without the check of api_key: the handle is constructed
\* whatever the environment holds
get_dune_clientUnchecked(client, environ, constructed) ==
    IF client = None
    THEN [exc |-> NoExc, val |-> constructed + 1, client |-> constructed + 1]
    ELSE [exc |-> NoExc, val |-> client, client |-> client]

\* get_dune_client() without the test `dune_client is None`: every call
\* reads the credential and constructs a handle
get_dune_clientUncached(client, environ, constructed) ==
    IF ~Truthy(os_getenv(environ, "DUNE_API_KEY"))
    THEN [exc |-> Exc("ValueError",
                      "DUNE_API_KEY environment variable is required"),
          val |-> None, client |-> client]
    ELSE [exc |-> NoExc, val |-> constructed + 1, client |-> constructed + 1]

\* get_dune_client(): the handle returned (val), the global afterwards
\* (client) and the exception raised, given the global before (client), the
\* environment and the number of handles constructed so far
get_dune_client(client, environ, constructed) ==
    IF client = None
    THEN LET api_key == os_getenv(environ, "DUNE_API_KEY") IN
         IF ~Truthy(api_key)
         THEN [exc |-> Exc("ValueError",
                           "DUNE_API_KEY environment variable is required"),
               val |-> None, client |-> client]
         ELSE [exc |-> NoExc, val |-> constructed + 1,
               client |-> constructed + 1]
    ELSE [exc |-> NoExc, val |-> client, client |-> client]

-----------------------------------------------------------------------------
(* Result shaping (execute_query and get_latest_query_result).             *)

\* obj.attr
GetAttr(obj, attr) ==
    IF attr \in DOMAIN obj THEN Val(obj[attr])
    ELSE Raise(Exc("AttributeError", "object has no attribute"))

\* "row_count" without the guard `if results.result`
ShapeRowCountUnguarded(results) ==
    LET rows == GetAttr(results.result, "rows") IN
    IF rows.exc # NoExc THEN rows
    ELSE IF rows.val.t # "list"
    THEN Raise(Exc("TypeError", "object has no len()"))
    ELSE Val(Len(rows.val.v))

\* "row_count": len(results.result.rows) if results.result else 0
ShapeRowCount(results) ==
    IF Truthy(results.result)
    THEN LET rows == GetAttr(results.result, "rows") IN
         IF rows.exc # NoExc THEN rows
         ELSE IF rows.val.t # "list"
         THEN Raise(Exc("TypeError", "object has no len()"))
         ELSE Val(Len(rows.val.v))
    ELSE Val(0)

\* "columns" read defensively: whatever is missing or not a list of columns
\* gives []
ShapeColumnsLenient(results) ==
    IF /\ Truthy(results.result)
       /\ "metadata" \in DOMAIN results.result
       /\ "column_names" \in DOMAIN results.result.metadata
       /\ results.result.metadata.column_names.t = "list"
       /\ \A i \in 1..Len(results.result.metadata.column_names.v) :
              "name" \in DOMAIN results.result.metadata.column_names.v[i]
    THEN Val([i \in 1..Len(results.result.metadata.column_names.v) |->
                 results.result.metadata.column_names.v[i].name])
    ELSE Val(<<>>)

\* "columns": [col.name for col in results.result.metadata.column_names]
\*            if results.result else []
ShapeColumns(results) ==
    IF Truthy(results.result)
    THEN LET metadata == GetAttr(results.result, "metadata") IN
         IF metadata.exc # NoExc THEN metadata
         ELSE LET column_names == GetAttr(metadata.val, "column_names") IN
              IF column_names.exc # NoExc THEN column_names
              ELSE IF column_names.val.t # "list"
              THEN Raise(Exc("TypeError", "object is not iterable"))
              ELSE LET cols == column_names.val.v IN
                   IF \E i \in 1..Len(cols) : "name" \notin DOMAIN cols[i]
                   THEN Raise(Exc("AttributeError", "object has no attribute"))
                   ELSE Val([i \in 1..Len(cols) |-> cols[i].name])
    ELSE Val(<<>>)

\* "rows" without the slice
ShapeRowsUntruncated(results) ==
    IF Truthy(results.result)
    THEN LET rows == GetAttr(results.result, "rows") IN
         IF rows.exc # NoExc THEN rows
         ELSE IF rows.val.t # "list"
         THEN Raise(Exc("TypeError", "object is not subscriptable"))
         ELSE Val(rows.val.v)
    ELSE Val(<<>>)

\* "rows": results.result.rows[:100] if results.result else []
ShapeRows(results) ==
    IF Truthy(results.result)
    THEN LET rows == GetAttr(results.result, "rows") IN
         IF rows.exc # NoExc THEN rows
         ELSE IF rows.val.t # "list"
         THEN Raise(Exc("TypeError", "object is not subscriptable"))
         ELSE Val(SubSeq(rows.val.v, 1,
                         IF Len(rows.val.v) < RowLimit THEN Len(rows.val.v)
                                                       ELSE RowLimit))
    ELSE Val(<<>>)

\* the dict display of execute_query: its items are evaluated in order, and
\* the first exception ends the evaluation
ExecuteQueryShape(query_id, results) ==
    LET row_count == ShapeRowCount(results)
        columns == ShapeColumns(results)
        rows == ShapeRows(results)
    IN  IF row_count.exc # NoExc THEN row_count
        ELSE IF columns.exc # NoExc THEN columns
        ELSE IF rows.exc # NoExc THEN rows
        ELSE Val([query_id |-> query_id,
                  execution_id |-> results.execution_id,
                  state |-> results.state,
                  row_count |-> row_count.val,
                  columns |-> columns.val,
                  rows |-> rows.val,
                  is_execution_finished |-> results.is_execution_finished])

\* the dict display of get_latest_query_result without its "cached" item
LatestResultShapeUnmarked(query_id, results) ==
    ExecuteQueryShape(query_id, results)

\* the dict display of get_latest_query_result
LatestResultShape(query_id, results) ==
    LET row_count == ShapeRowCount(results)
        columns == ShapeColumns(results)
        rows == ShapeRows(results)
    IN  IF row_count.exc # NoExc THEN row_count
        ELSE IF columns.exc # NoExc THEN columns
        ELSE IF rows.exc # NoExc THEN rows
        ELSE Val([query_id |-> query_id,
                  execution_id |-> results.execution_id,
                  state |-> results.state,
                  row_count |-> row_count.val,
                  columns |-> columns.val,
                  rows |-> rows.val,
                  is_execution_finished |-> results.is_execution_finished,
                  cached |-> TRUE])

\* the parameters of a query object, as get_query and create_query list them
ParameterDicts(parameters) ==
    [i \in 1..Len(parameters) |->
        [name |-> parameters[i].key,
         type |-> parameters[i].type,
         value |-> IF parameters[i].value.t # "NoneType"
                   THEN PyStr(Str(parameters[i].value)) ELSE PyNone]]

-----------------------------------------------------------------------------
(* The tools.  A tool body yields the exception it raised (exc), the value *)
(* it returned (ret), the global handle afterwards (client), the number of *)
(* calls it made on the remote client (calls) and the last of them         *)
(* (request).  `remote` is what the collaborator does with the call:       *)
(* [raises |-> TRUE, exc |-> e] or [raises |-> FALSE, obj |-> o].          *)

NoResponse == [pending |-> TRUE]
NoRequest == [method |-> "none"]
NoRemote == [raises |-> FALSE]

Outcome(exc, ret, client, calls, request) ==
    [exc |-> exc, ret |-> ret, client |-> client, calls |-> calls,
     request |-> request]

\* a call that is made once more when it fails
CallRemoteRetry(req, remote) ==
    [exc |-> IF remote.raises THEN remote.exc ELSE NoExc,
     calls |-> IF remote.raises THEN 2 ELSE 1, request |-> req]

\* one call on the remote client: the exception it raised, and the call made
CallRemote(req, remote) ==
    [exc |-> IF remote.raises THEN remote.exc ELSE NoExc,
     calls |-> 1, request |-> req]

\* the handler as `except ValueError as e` would be: other exceptions leave
\* the tool
ContainValueErrorOnly(body, err) ==
    IF body.exc.cls = "ValueError"
    THEN [body EXCEPT !.exc = NoExc, !.ret = err]
    ELSE body

\* try: ... except Exception as e: return <err>
Contain(body, err) ==
    IF body.exc.cls \in ExceptionSubclasses
    THEN [body EXCEPT !.exc = NoExc, !.ret = err]
    ELSE body

\* get_query, lines 60-80
get_query_try(client, environ, constructed, query_id, remote) ==
    LET g == get_dune_client(client, environ, constructed)
        req == [method |-> "get_query", handle |-> g.val, query_id |-> query_id]
        call == CallRemote(req, remote)
    IN  IF g.exc # NoExc THEN Outcome(g.exc, NoResponse, g.client, 0, NoRequest)
        ELSE IF call.exc # NoExc
        THEN Outcome(call.exc, NoResponse, g.client, call.calls, call.request)
        ELSE LET query == remote.obj IN
             Outcome(NoExc,
                     [query_id |-> query.base.query_id,
                      name |-> query.base.name,
                      sql |-> query.sql,
                      owner |-> query.meta.owner,
                      is_private |-> query.meta.is_private,
                      is_archived |-> query.meta.is_archived,
                      description |-> query.meta.description,
                      tags |-> query.meta.tags,
                      version |-> query.meta.version,
                      engine |-> query.meta.engine,
                      parameters |-> ParameterDicts(query.base.parameters),
                      url |-> query.base.url],
                     g.client, call.calls,
                          call.request)

get_query(client, environ, constructed, query_id, remote) ==
    LET body == get_query_try(client, environ, constructed, query_id, remote)
    IN  Contain(body, [error |-> body.exc.msg, query_id |-> query_id])

\* execute_query, lines 91-121
execute_query_try(client, environ, constructed, query_id, parameters, remote) ==
    LET g == get_dune_client(client, environ, constructed)
        query_params == SimpleCoerce(parameters)
        query == [query_id |-> query_id,
                  name |-> <<"Q", "u", "e", "r", "y", " ">> \o IntStr(query_id),
                  params |-> ParamsOrNone(query_params)]
        req == [method |-> "run_query", handle |-> g.val, query |-> query]
        call == CallRemote(req, remote)
    IN  IF g.exc # NoExc THEN Outcome(g.exc, NoResponse, g.client, 0, NoRequest)
        ELSE IF call.exc # NoExc
        THEN Outcome(call.exc, NoResponse, g.client, call.calls, call.request)
        ELSE LET shaped == ExecuteQueryShape(query_id, remote.obj) IN
             IF shaped.exc # NoExc
             THEN Outcome(shaped.exc, NoResponse, g.client, call.calls,
                          call.request)
             ELSE Outcome(NoExc, shaped.val, g.client, call.calls,
                          call.request)

execute_query(client, environ, constructed, query_id, parameters, remote) ==
    LET body == execute_query_try(client, environ, constructed, query_id,
                                   parameters, remote)
    IN  Contain(body, [error |-> body.exc.msg, query_id |-> query_id])

\* create_query, lines 132-170
create_query_try(client, environ, constructed, name, query_sql, is_private, parameters, remote) ==
    LET g == get_dune_client(client, environ, constructed)
        query_params == RichCoerce(parameters)
        req == [method |-> "create_query", handle |-> g.val, name |-> name,
                query_sql |-> query_sql, is_private |-> is_private,
                params |-> ParamsOrNone(query_params.val)]
        call == CallRemote(req, remote)
    IN  IF g.exc # NoExc THEN Outcome(g.exc, NoResponse, g.client, 0, NoRequest)
        ELSE IF query_params.exc # NoExc
        THEN Outcome(query_params.exc, NoResponse, g.client, 0, NoRequest)
        ELSE IF call.exc # NoExc
        THEN Outcome(call.exc, NoResponse, g.client, call.calls, call.request)
        ELSE LET created_query == remote.obj IN
             Outcome(NoExc,
                     [query_id |-> created_query.base.query_id,
                      name |-> created_query.base.name,
                      url |-> created_query.base.url,
                      is_private |-> created_query.meta.is_private,
                      owner |-> created_query.meta.owner,
                      parameters |->
                          ParameterDicts(created_query.base.parameters)],
                     g.client, call.calls,
                          call.request)

create_query(client, environ, constructed, name, query_sql, is_private, parameters, remote) ==
    LET body == create_query_try(client, environ, constructed, name,
                                  query_sql, is_private, parameters, remote)
    IN  Contain(body, [error |-> body.exc.msg])

\* create_table, lines 181-199; a table or namespace name is a str
create_table_try(client, environ, constructed, namespace, table_name, schema, description, is_private, remote) ==
    LET g == get_dune_client(client, environ, constructed)
        req == [method |-> "create_table", handle |-> g.val,
                namespace |-> namespace, table_name |-> table_name,
                schema |-> schema, description |-> description,
                is_private |-> is_private]
        dotted == <<"d", "u", "n", "e", ".">> \o namespace \o <<".">> \o table_name
        call == CallRemote(req, remote)
    IN  IF g.exc # NoExc THEN Outcome(g.exc, NoResponse, g.client, 0, NoRequest)
        ELSE IF call.exc # NoExc
        THEN Outcome(call.exc, NoResponse, g.client, call.calls, call.request)
        ELSE Outcome(NoExc,
                     [success |-> remote.obj.success,
                      full_table_name |-> dotted,
                      namespace |-> namespace,
                      table_name |-> table_name,
                      description |-> description,
                      is_private |-> is_private,
                      example_usage |->
                          <<"S", "E", "L", "E", "C", "T", " ", "*", " ",
                            "F", "R", "O", "M", " ">> \o dotted],
                     g.client, call.calls,
                          call.request)

create_table(client, environ, constructed, namespace, table_name, schema, description, is_private, remote) ==
    LET body == create_table_try(client, environ, constructed, namespace,
                                  table_name, schema, description, is_private,
                                  remote)
    IN  Contain(body, [error |-> body.exc.msg])

\* upload_csv_to_table, lines 210-226
upload_csv_to_table_try(client, environ, constructed, table_name, csv_data, description, is_private, remote) ==
    LET g == get_dune_client(client, environ, constructed)
        req == [method |-> "upload_csv", handle |-> g.val,
                table_name |-> table_name, data |-> csv_data,
                description |-> description, is_private |-> is_private]
        dotted == <<"d", "u", "n", "e", ".">> \o table_name
        call == CallRemote(req, remote)
    IN  IF g.exc # NoExc THEN Outcome(g.exc, NoResponse, g.client, 0, NoRequest)
        ELSE IF call.exc # NoExc
        THEN Outcome(call.exc, NoResponse, g.client, call.calls, call.request)
        ELSE Outcome(NoExc,
                     [success |-> remote.obj,
                      table_name |-> table_name,
                      full_table_name |-> dotted,
                      description |-> description,
                      is_private |-> is_private,
                      example_usage |->
                          <<"S", "E", "L", "E", "C", "T", " ", "*", " ",
                            "F", "R", "O", "M", " ">> \o dotted],
                     g.client, call.calls,
                          call.request)

upload_csv_to_table(client, environ, constructed, table_name, csv_data, description, is_private, remote) ==
    LET body == upload_csv_to_table_try(client, environ, constructed,
                                         table_name, csv_data, description,
                                         is_private, remote)
    IN  Contain(body, [error |-> body.exc.msg])

\* get_latest_query_result, lines 237-253
get_latest_query_result_try(client, environ, constructed, query_id, max_age_hours, remote) ==
    LET g == get_dune_client(client, environ, constructed)
        req == IF Truthy(max_age_hours)
               THEN [method |-> "get_latest_result", handle |-> g.val,
                     query_id |-> query_id, max_age_hours |-> max_age_hours]
               ELSE [method |-> "get_latest_result", handle |-> g.val,
                     query_id |-> query_id]
        call == CallRemote(req, remote)
    IN  IF g.exc # NoExc THEN Outcome(g.exc, NoResponse, g.client, 0, NoRequest)
        ELSE IF call.exc # NoExc
        THEN Outcome(call.exc, NoResponse, g.client, call.calls, call.request)
        ELSE LET shaped == LatestResultShape(query_id, remote.obj) IN
             IF shaped.exc # NoExc
             THEN Outcome(shaped.exc, NoResponse, g.client, call.calls,
                          call.request)
             ELSE Outcome(NoExc, shaped.val, g.client, call.calls,
                          call.request)

get_latest_query_result(client, environ, constructed, query_id, max_age_hours, remote) ==
    LET body == get_latest_query_result_try(client, environ, constructed,
                                             query_id, max_age_hours, remote)
    IN  Contain(body, [error |-> body.exc.msg, query_id |-> query_id])

\* query_builder_helper, lines 264-301.  A table name is the tuple of its
\* dot-separated segments, so table.startswith('dune.') is a first segment
\* "dune" followed by another; the template is the tuple of its parts.
Tips ==
    <<"Use 'dune.namespace.table_name' format for user tables/materialized views",
      "Standard blockchain tables: ethereum.transactions, ethereum.blocks, etc.",
      "Use {{parameter_name}} for parameterized queries",
      "Cast numeric fields: CAST(gas_used AS uint256)",
      "Use DATE() functions for time filtering">>

Qualify(table) ==
    IF Len(table) >= 2 /\ Head(table) = "dune" THEN table ELSE <<"dune">> \o table

query_builder_helper_try(client, description, tables, filters) ==
    LET from_clause ==
            IF Truthy(tables)
            THEN [i \in 1..Len(tables.v) |-> Qualify(tables.v[i])]
            ELSE <<<<"-- Specify your tables here">>>>
        head == <<[description |-> description], [from |-> from_clause]>>
        template == IF Truthy(filters) THEN Append(head, [where |-> filters.v])
                                       ELSE head
    IN  Outcome(NoExc,
                [template_sql |-> Append(template, [tail |-> "-- Optional"]),
                 tips |-> Tips,
                 description |-> description],
                client, 0, NoRequest)

query_builder_helper(client, description, tables, filters) ==
    LET body == query_builder_helper_try(client, description, tables, filters)
    IN  Contain(body, [error |-> body.exc.msg])

-----------------------------------------------------------------------------
(* What callers pass and what the collaborator answers.                    *)

RemoteError == [raises |-> TRUE, exc |-> Exc("DuneError", "remote call failed")]
RemoteReturns(obj) == [raises |-> FALSE, obj |-> obj]

QueryIds == {7, 42}

\* the environment of the server process, with and without the credential
Environs ==
    {[PATH |-> <<"/">>],
     [PATH |-> <<"/">>, DUNE_API_KEY |-> <<>>],
     [PATH |-> <<"/">>, DUNE_API_KEY |-> <<"k">>]}

\* a query object of the collaborator: base, sql and meta
QueryObject(query_id, name, sql, is_private, parameters) ==
    [base |-> [query_id |-> query_id, name |-> name,
               url |-> [queries |-> query_id], parameters |-> parameters],
     sql |-> sql,
     meta |-> [owner |-> <<"o">>, is_private |-> is_private,
               is_archived |-> FALSE, description |-> <<>>, tags |-> <<>>,
               version |-> 1, engine |-> <<"v", "2">>]]

DeclaredParameters ==
    {<<>>,
     <<number_type("n", PyInt(10)), text_type("s", PyNone),
       number_type("f", PyFloat((3 * Scale) \div 2))>>}

\* values of an execute_query parameter mapping
PyValues ==
    {PyStr(<<"x">>), PyInt(7), PyFloat((3 * Scale) \div 2), PyBool(TRUE), PyNone,
     PyList(<<PyInt(1), PyInt(2)>>)}

KeyNames == <<"a", "b", "c", "d">>
Keys == {KeyNames[i] : i \in 1..MaxParams}

\* the mappings of at most MaxParams entries, as their items in order, and
\* an absent mapping
Mappings ==
    {PyNone} \cup
    {[t |-> "dict", v |-> items] :
        items \in UNION {{s \in [1..n -> Keys \X PyValues] :
                             \A i, j \in 1..n : i # j => s[i][1] # s[j][1]} :
                         n \in 0..MaxParams}}

\* the value strings of a create_query parameter
Strings(n) == UNION {[1..k -> Chars] : k \in 0..n}

\* dicts with keys among type, name and value
DictOf(type, name, value) ==
    [k \in {x \in {"type"} : type # "absent"} \cup
           {x \in {"name"} : name # "absent"} \cup
           {x \in {"value"} : value # <<"absent">>} |->
        CASE k = "type" -> type
          [] k = "name" -> name
          [] OTHER -> value]

\* parameter dicts: a number parameter with any value string, the others
\* with a short one
ParamDicts ==
    {DictOf("number", name, value) :
        name \in {"absent", "p"},
        value \in Strings(MaxStrLen) \cup {<<"absent">>}} \cup
    {DictOf(type, name, value) :
        type \in {"absent", "date", "enum", "text", "other"},
        name \in {"absent", "p"},
        value \in {<<"absent">>, <<>>, <<"x">>}}

\* parameter dicts that surround the one under study in a longer list
SampleParams ==
    {DictOf("number", "q", <<"1">>), DictOf("absent", "r", <<"x">>)}

InsertAt(s, i, e) == SubSeq(s, 1, i - 1) \o <<e>> \o SubSeq(s, i, Len(s))

\* the parameter lists of at most MaxParams dicts, and an absent list
ParamLists ==
    {PyNone, PyList(<<>>)} \cup
    {PyList(InsertAt(rest, i, p)) :
        p \in ParamDicts,
        <<rest, i>> \in
            UNION {[1..n -> SampleParams] \X (1..(n + 1)) :
                   n \in 0..(MaxParams - 1)}}

\* the rows and columns of a remote result
Row(i) == [a |-> i, b |-> <<"r">>]
Rows(n) == [i \in 1..n |-> Row(i)]
RowCounts == {0, 1, RowLimit - 1, RowLimit, RowLimit + 1, MaxRows}
Column(name) == [t |-> "Column", name |-> name]
ColumnLists == {<<>>, <<Column("a"), Column("b")>>}

ExecutionResult(rows, metadata) ==
    [t |-> "ExecutionResult", rows |-> rows, metadata |-> metadata]
ResultMetadata(column_names) ==
    [t |-> "ResultMetadata", column_names |-> column_names]

WellFormedResults ==
    {ExecutionResult(PyList(Rows(n)), ResultMetadata(PyList(cols))) :
        n \in RowCounts, cols \in ColumnLists}

\* a present result that lacks, or has a None for, something the code reads
MalformedResults ==
    {[t |-> "ExecutionResult", rows |-> PyList(Rows(2))],
     [t |-> "ExecutionResult",
      metadata |-> ResultMetadata(PyList(<<Column("a")>>))],
     ExecutionResult(PyList(Rows(2)), PyNone),
     ExecutionResult(PyList(Rows(2)), [t |-> "ResultMetadata"]),
     ExecutionResult(PyList(Rows(2)), ResultMetadata(PyNone)),
     ExecutionResult(PyList(Rows(2)), ResultMetadata(PyList(<<PyStr(<<"a">>)>>))),
     ExecutionResult(PyNone, ResultMetadata(PyList(<<Column("a")>>)))}

ExecutionStates ==
    {"QUERY_STATE_PENDING", "QUERY_STATE_COMPLETED", "QUERY_STATE_FAILED"}

\* an execution object of the collaborator
ExecutionObjects ==
    {[execution_id |-> <<"0", "1">>, state |-> state,
      is_execution_finished |-> finished, result |-> PyNone] :
        state \in ExecutionStates, finished \in BOOLEAN} \cup
    {[execution_id |-> <<"0", "1">>, state |-> "QUERY_STATE_COMPLETED",
      is_execution_finished |-> TRUE, result |-> result] :
        result \in WellFormedResults \cup MalformedResults}

ExecutionOutcomes == {RemoteError} \cup {RemoteReturns(o) : o \in ExecutionObjects}

-----------------------------------------------------------------------------
(* The server process.                                                     *)

VARIABLES
    dune_client,  \* the global handle: None or a handle
    constructed,  \* how many handles DuneClient.from_env() has produced
    environ,      \* os.environ
    pc,           \* "idle", or "returned" when a tool has just returned
    inv,          \* the invocation that returned: tool, arguments, the
                  \* collaborator's answer, the handle before it
    response,     \* the value the tool returned
    escaped,      \* the exception that left the tool, or NoExc
    calls,        \* the calls the invocation made on the remote client
    request       \* the last of them

vars == <<dune_client, constructed, environ, pc, inv, response, escaped,
          calls, request>>

NoInv == [tool |-> "none"]

Init ==
    /\ dune_client = None
    /\ constructed = 0
    /\ environ \in Environs
    /\ pc = "idle"
    /\ inv = NoInv
    /\ response = NoResponse
    /\ escaped = NoExc
    /\ calls = 0
    /\ request = NoRequest

\* one invocation of a tool, from the call to its return; the server is idle
\* when a Call action starts it
Invoke(tool, args, remote, out) ==
    /\ pc' = "returned"
    /\ inv' = [tool |-> tool, args |-> args,
               remote |-> IF out.calls > 0 THEN remote ELSE NoRemote,
               client0 |-> dune_client]
    /\ dune_client' = out.client
    /\ constructed' = IF out.client \notin {None, dune_client}
                      THEN constructed + 1 ELSE constructed
    /\ response' = IF out.exc = NoExc THEN out.ret ELSE NoResponse
    /\ escaped' = out.exc
    /\ calls' = out.calls
    /\ request' = out.request
    /\ UNCHANGED environ

CallGetQuery ==
    /\ pc = "idle"
    /\ \E query_id \in QueryIds :
       \E remote \in {RemoteError} \cup
                     {RemoteReturns(QueryObject(query_id, <<"q">>, <<"s">>, FALSE, ps)) :
                         ps \in DeclaredParameters} :
           Invoke("get_query", [query_id |-> query_id], remote,
                  get_query(dune_client, environ, constructed, query_id, remote))

CallExecuteQuery ==
    /\ pc = "idle"
    /\ \E query_id \in {42}, parameters \in Mappings, remote \in ExecutionOutcomes :
           Invoke("execute_query",
                  [query_id |-> query_id, parameters |-> parameters], remote,
                  execute_query(dune_client, environ, constructed, query_id,
                                parameters, remote))

CallCreateQuery ==
    /\ pc = "idle"
    /\ \E is_private \in BOOLEAN, parameters \in ParamLists, raises \in BOOLEAN :
           LET coerced == RichCoerce(parameters)
               remote ==
                   IF raises \/ coerced.exc # NoExc THEN RemoteError
                   ELSE RemoteReturns(QueryObject(99, <<"n">>, <<"s">>, is_private,
                                                  coerced.val))
           IN  Invoke("create_query",
                      [name |-> <<"n">>, query_sql |-> <<"s">>,
                       is_private |-> is_private, parameters |-> parameters],
                      remote,
                      create_query(dune_client, environ, constructed, <<"n">>,
                                   <<"s">>, is_private, parameters, remote))

CallCreateTable ==
    /\ pc = "idle"
    /\ \E namespace \in {<<"n", "s">>}, table_name \in {<<"t">>, <<"u">>},
          is_private \in BOOLEAN :
       \E remote \in {RemoteError} \cup
                     {RemoteReturns([success |-> b]) : b \in BOOLEAN} :
           LET schema == <<[name |-> <<"c">>, type |-> <<"i", "n", "t">>]>>
           IN  Invoke("create_table",
                      [namespace |-> namespace, table_name |-> table_name,
                       schema |-> schema, description |-> <<>>,
                       is_private |-> is_private],
                      remote,
                      create_table(dune_client, environ, constructed, namespace,
                                   table_name, schema, <<>>, is_private, remote))

CallUploadCsvToTable ==
    /\ pc = "idle"
    /\ \E table_name \in {<<"t">>, <<"u">>}, is_private \in BOOLEAN :
       \E remote \in {RemoteError} \cup {RemoteReturns(b) : b \in BOOLEAN} :
           LET csv_data == <<"a", ",", "b">>
           IN  Invoke("upload_csv_to_table",
                      [table_name |-> table_name, csv_data |-> csv_data,
                       description |-> <<>>, is_private |-> is_private],
                      remote,
                      upload_csv_to_table(dune_client, environ, constructed,
                                          table_name, csv_data, <<>>, is_private,
                                          remote))

CallGetLatestQueryResult ==
    /\ pc = "idle"
    /\ \E query_id \in QueryIds, max_age_hours \in {PyNone, PyInt(0), PyInt(24)},
          remote \in ExecutionOutcomes :
           Invoke("get_latest_query_result",
                  [query_id |-> query_id, max_age_hours |-> max_age_hours], remote,
                  get_latest_query_result(dune_client, environ, constructed,
                                          query_id, max_age_hours, remote))

CallQueryBuilderHelper ==
    /\ pc = "idle"
    /\ \E tables \in {PyNone, PyList(<<>>),
                      PyList(<<<<"ethereum", "transactions">>,
                               <<"dune", "ns", "t">>, <<"dune">>>>)},
          filters \in {PyNone, PyStr(<<>>), PyStr(<<"x">>)} :
           Invoke("query_builder_helper",
                  [description |-> <<"d">>, tables |-> tables, filters |-> filters],
                  NoRemote,
                  query_builder_helper(dune_client, <<"d">>, tables, filters))

\* the returned value goes to the caller and the server waits for the next
\* request
Return ==
    /\ pc = "returned"
    /\ pc' = "idle"
    /\ inv' = NoInv
    /\ response' = NoResponse
    /\ escaped' = NoExc
    /\ calls' = 0
    /\ request' = NoRequest
    /\ UNCHANGED <<dune_client, constructed, environ>>

\* the credential is set, emptied or removed in the environment of the
\* process
SetEnviron ==
    /\ pc = "idle"
    /\ \E e \in Environs : e # environ /\ environ' = e
    /\ UNCHANGED <<dune_client, constructed, pc, inv, response, escaped, calls,
                   request>>

Next ==
    \/ CallGetQuery
    \/ CallExecuteQuery
    \/ CallCreateQuery
    \/ CallCreateTable
    \/ CallUploadCsvToTable
    \/ CallGetLatestQueryResult
    \/ CallQueryBuilderHelper
    \/ Return
    \/ SetEnviron

Spec == Init /\ [][Next]_vars

-----------------------------------------------------------------------------
(* Properties.                                                             *)

AdapterTools ==
    {"get_query", "execute_query", "create_query", "create_table",
     "upload_csv_to_table", "get_latest_query_result"}
ShapingTools == {"execute_query", "get_latest_query_result"}

Returned(tools) == pc = "returned" /\ inv.tool \in tools
IsError == "error" \in DOMAIN response
CredentialMissing == ~Truthy(os_getenv(environ, "DUNE_API_KEY"))
SameValue(a, b) == a.t = b.t /\ (a.t # "NoneType" => a.v = b.v)

\* C1: whenever the remote call of one of the six adapter tools raises, the
\* tool returns a value with an `error` field (the text of the exception) and
\* no exception leaves the tool; this holds in every reachable state, so
\* also after any number of earlier failures.
C1_RemoteFailureContained ==
    (Returned(AdapterTools) /\ inv.remote.raises)
        => /\ escaped = NoExc
           /\ IsError
           /\ response.error = inv.remote.exc.msg

\* a remote failure answered with an error value, by a server whose handle
\* was built by an earlier invocation
C1_Witness ==
    /\ Returned(AdapterTools)
    /\ inv.remote.raises
    /\ inv.client0 # None
    /\ IsError

\* C2: an adapter tool invoked while the handle is None and DUNE_API_KEY is
\* unset or empty returns an error value naming the variable, raises nothing,
\* makes no remote call and leaves the handle None; invoked while the handle
\* is None and the credential is set, it constructs the handle and does not
\* report the configuration error.
C2_MissingCredential ==
    (Returned(AdapterTools) /\ inv.client0 = None)
        => IF CredentialMissing
           THEN /\ escaped = NoExc
                /\ IsError
                /\ response.error = "DUNE_API_KEY environment variable is required"
                /\ calls = 0
                /\ request = NoRequest
                /\ dune_client = None
                /\ constructed = 0
           ELSE /\ dune_client # None
                /\ constructed = 1
                /\ escaped = NoExc
                /\ IsError =>
                       response.error # "DUNE_API_KEY environment variable is required"

\* an invocation that found no credential and no handle
C2_Witness ==
    /\ Returned(AdapterTools)
    /\ inv.client0 = None
    /\ CredentialMissing
    /\ IsError

\* C3: once the handle exists no step resets or replaces it, and every
\* remote call of a later invocation is made on it.
C3_HandleReused ==
    [][dune_client # None
          => /\ dune_client' = dune_client
             /\ constructed' = constructed
             /\ calls' > 0 => request'.handle = dune_client]_vars

\* a failing invocation made on a handle that an earlier invocation built,
\* after the credential has left the environment
C3_Witness ==
    /\ Returned(AdapterTools)
    /\ inv.client0 # None
    /\ dune_client = inv.client0
    /\ CredentialMissing
    /\ calls = 1
    /\ request.handle = inv.client0
    /\ IsError

\* the invocation stops before the remote step: no credential and no handle,
\* or a create_query parameter that cannot be coerced
FailsEarlier ==
    \/ inv.client0 = None /\ CredentialMissing
    \/ inv.tool = "create_query" /\ RichCoerce(inv.args.parameters).exc # NoExc

\* C4: an invocation makes at most one remote call: an adapter tool makes
\* exactly one when it reaches the remote step and none when it fails before
\* it, query_builder_helper makes none, and a call that fails is not repeated.
C4_AtMostOneRemoteCall ==
    pc = "returned"
        => /\ calls <= 1
           /\ inv.tool = "query_builder_helper" => calls = 0
           /\ inv.tool \in AdapterTools => calls = IF FailsEarlier THEN 0 ELSE 1
           /\ calls = 0 <=> request = NoRequest

\* a remote call that failed and was made once
C4_Witness ==
    /\ Returned(AdapterTools)
    /\ inv.remote.raises
    /\ calls = 1

\* the dicts of a create_query parameter list
ParamsOf(parameters) == IF parameters.t = "list" THEN parameters.v ELSE <<>>
IsNumberParam(param) == "type" \in DOMAIN param /\ param["type"] = "number"
HasValue(param) == "value" \in DOMAIN param /\ param["value"] # <<>>
Unparsable(param) ==
    IsNumberParam(param) /\ HasValue(param) /\ Float(param["value"]).exc # NoExc

\* C5: create_query with a number parameter whose value string is not empty
\* and is no floating-point literal returns an error value and makes no
\* remote call; in the call it does make, a number parameter carries 0
\* exactly when its value string is empty or missing, and the parsed float
\* otherwise.
C5_MalformedNumberFails ==
    Returned({"create_query"})
        => LET params == ParamsOf(inv.args.parameters) IN
           /\ (\E i \in 1..Len(params) : Unparsable(params[i]))
                  => /\ IsError
                     /\ escaped = NoExc
                     /\ calls = 0
                     /\ request = NoRequest
           /\ calls = 1
                  => \A i \in 1..Len(params) :
                         IsNumberParam(params[i])
                             => /\ request.params.v[i].type = "number"
                                /\ SameValue(request.params.v[i].value,
                                             IF HasValue(params[i])
                                             THEN Float(params[i]["value"]).val
                                             ELSE PyInt(0))

\* a create_query that failed on a malformed number standing after a
\* well-formed parameter, with the handle in place
C5_Witness ==
    /\ Returned({"create_query"})
    /\ inv.client0 # None
    /\ Len(ParamsOf(inv.args.parameters)) = 2
    /\ ~Unparsable(ParamsOf(inv.args.parameters)[1])
    /\ Unparsable(ParamsOf(inv.args.parameters)[2])
    /\ "name" \in DOMAIN ParamsOf(inv.args.parameters)[2]
    /\ IsError
    /\ calls = 0

\* the tool returned the shaped result of an execution object
Shaped == Returned(ShapingTools) /\ calls = 1 /\ ~inv.remote.raises /\ ~IsError
ResultPresent == inv.remote.obj.result.t # "NoneType"

\* C6: in a shaped response built from a present result, row_count is the
\* number of rows of the result; rows has row_count entries when row_count is
\* at most 100 and 100 entries otherwise, and is the prefix of that length of
\* the result's rows.
C6_RowsArePrefix ==
    (Shaped /\ ResultPresent)
        => LET source == inv.remote.obj.result.rows.v IN
           /\ response.row_count = Len(source)
           /\ Len(response.rows) =
                  IF response.row_count <= 100 THEN response.row_count ELSE 100
           /\ \A i \in 1..Len(response.rows) : response.rows[i] = source[i]

\* a shaped response of more than 100 rows
C6_Witness ==
    /\ Shaped
    /\ ResultPresent
    /\ response.row_count > 100
    /\ Len(response.rows) = 100

\* C7: when the execution object has no result, execute_query and
\* get_latest_query_result return a success value with row_count 0, no
\* columns and no rows, and with the state and the finished flag of the
\* execution object, whatever the state is.
C7_AbsentResult ==
    (Returned(ShapingTools) /\ calls = 1 /\ ~inv.remote.raises /\ ~ResultPresent)
        => /\ ~IsError
           /\ escaped = NoExc
           /\ response.row_count = 0
           /\ response.columns = <<>>
           /\ response.rows = <<>>
           /\ response.state = inv.remote.obj.state
           /\ response.is_execution_finished =
                  inv.remote.obj.is_execution_finished

\* an unfinished execution without a result, shaped
C7_Witness ==
    /\ Returned(ShapingTools)
    /\ calls = 1
    /\ ~inv.remote.raises
    /\ ~ResultPresent
    /\ inv.remote.obj.state = "QUERY_STATE_PENDING"
    /\ ~inv.remote.obj.is_execution_finished
    /\ ~IsError

\* the items of an execute_query mapping, and the parameters run_query got
ItemsOf(parameters) == IF parameters.t = "dict" THEN parameters.v ELSE <<>>
SentParams == IF request.query.params.t = "list" THEN request.query.params.v
                                                 ELSE <<>>

\* C8: the parameters execute_query passes to run_query are as many as the
\* entries of the mapping and in their order; the i-th has the i-th key, kind
\* text and the value itself for a string, kind number and the value itself
\* for an integer or a float, and kind text with str(value) for any other
\* value (a boolean, a list, None).
C8_SimpleCoercion ==
    (Returned({"execute_query"}) /\ calls = 1)
        => LET items == ItemsOf(inv.args.parameters) IN
           /\ Len(SentParams) = Len(items)
           /\ \A i \in 1..Len(items) :
                  LET value == items[i][2]
                      sent == SentParams[i]
                  IN  /\ sent.key = items[i][1]
                      /\ sent.type = IF value.t \in {"int", "float"}
                                     THEN "number" ELSE "text"
                      /\ SameValue(sent.value,
                                   IF value.t \in {"str", "int", "float"}
                                   THEN value ELSE PyStr(Str(value)))

MalformedReturned ==
    /\ Returned(ShapingTools)
    /\ calls = 1
    /\ ~inv.remote.raises
    /\ inv.remote.obj.result \in MalformedResults

====
